---- MODULE Spec2Model ----
(***************************************************************************)
(* RAG-as-a-service: per-session ingestion, retrieval and expiry.          *)
(*                                                                         *)
(* Three stores hold a session: the temporary file temp_pdfs/<id>.pdf, the *)
(* vector collection session_<id> and the row of the sessions table.       *)
(* Request handlers (upload_pdf, chat, get_session_status) are coroutines  *)
(* without an await after the body was read, so the event loop runs one at *)
(* a time; cleanup_expired_sessions runs on the scheduler's own thread and *)
(* interleaves with a handler between any two store operations.            *)
(***************************************************************************)
EXTENDS Integers, Sequences, FiniteSets, TLC

\* ---------------------------------------------------------------- bounds
\* How many times the clock advances in one behaviour.
MaxTicks == 1
\* Longest block list handed to the vector store in StoreSpec.
MaxBlocks == 2
\* How many start_scheduler / stop_scheduler calls one behaviour makes.
MaxCalls == 6
\* How many times one thread calls get_model.
MaxGets == 2
\* Longest text of a block handed to the chunker, and largest max_chars.
MaxText == 6
MaxWindow == 3

\* ------------------------------------------------------------- constants
SESSION_EXPIRY_MINUTES == 30
TOP_K == 3
MAX_CHARS == 500
OVERLAP_CHARS == 50
MinutesPerDay == 24 * 60

\* uuid4 values: two ids suffice for every two-session property.
Sessions == {"a", "b"}
NoSid == "-"
FileNames == {"cv.pdf"}
\* Threads that ask for embeddings.
Threads == {"t1", "t2"}

\* ------------------------------------------------------ faulty variants
\* Variants of the code that the properties below must tell from the code.
\* A collection name that leaves the session id out.
collection_name_unscoped(session_id) == <<"session_">>
\* A teardown that removes the row before the collection and the file.
row_first_steps == <<"row", "coll", "file">>
\* A delete that reports success whether or not a collection was there.
delete_collection_result_true(store, session_id) == TRUE
\* A create that does not delete the collection it finds.
create_collection_drop_skipped(store, session_id) == store
\* An except branch that leaves the loop.
AfterFailureAborts(idx, expired) == [pc |-> "return", idx |-> idx + 1]

\* The clock is counted in minutes. A behaviour starts five
\* minutes before midnight of day 0 and advances by one of these steps.
StartTimes == {MinutesPerDay - 5}
TickSteps == {SESSION_EXPIRY_MINUTES - 1, SESSION_EXPIRY_MINUTES + 1}

\* -------------------------------------------------------------- DataBlock
DataBlock(text, page, bbox) == [text |-> text, page |-> page, bbox |-> bbox]
BlockX == DataBlock(<<1, 2>>, 1, <<0, 0, 10, 10>>)
BlockY == DataBlock(<<4>>, 2, <<5, 5, 20, 20>>)
BlockZ == DataBlock(<<6>>, 2, <<30, 5, 40, 20>>)
BlockW == DataBlock(<<1>>, 3, <<0, 30, 10, 40>>)
\* What extract_text_blocks may return for an uploaded file: no text, or
\* more blocks than a chat query asks for.
Documents == {<< >>, <<BlockZ, BlockY, BlockW, BlockX>>}

Range(seq) == {seq[i] : i \in 1..Len(seq)}
Min(a, b) == IF a < b THEN a ELSE b
Abs(x) == IF x < 0 THEN -x ELSE x

\* text[start:end] of Python, 0-based and end-exclusive.
Slice(text, start, end) == SubSeq(text, start + 1, end)

\* Faulty variants of the slicing loop.
\* A window that takes one character more than max_chars.
SliceEndLong(text, start, max_chars) == Min(start + max_chars + 1, Len(text))
\* A window that starts where the last one ended.
NextStartNoOverlap(text, end, overlap_chars) == end
\* A chunk that is placed on the page after its parent's.
ChunkNextPage(block, start, end) ==
  [text |-> SubSeq(block.text, start + 1, end), page |-> block.page + 1,
   bbox |-> block.bbox]

\* A window that steps back one character more than overlap_chars.
NextStartBack(text, end, overlap_chars) ==
  IF end < Len(text) THEN end - overlap_chars - 1 ELSE end

\* if len(block.text) <= max_chars
Fits(block, max_chars) == Len(block.text) <= max_chars
\* end = min(start + max_chars, len(text))
SliceEnd(text, start, max_chars) == Min(start + max_chars, Len(text))
\* start = end - overlap_chars if end < len(text) else end
NextStart(text, end, overlap_chars) ==
  IF end < Len(text) THEN end - overlap_chars ELSE end
\* DataBlock(text=chunk_text, page=block.page, bbox=block.bbox)
Chunk(block, start, end) ==
  DataBlock(Slice(block.text, start, end), block.page, block.bbox)

RECURSIVE ChunkOne(_, _, _, _)
\* The while loop of chunk_text_blocks for one oversized block.
ChunkOne(block, start, max_chars, overlap_chars) ==
  IF start < Len(block.text)
  THEN LET end == SliceEnd(block.text, start, max_chars)
           next == NextStart(block.text, end, overlap_chars)
       IN <<Chunk(block, start, end)>>
            \o ChunkOne(block, next, max_chars, overlap_chars)
  ELSE << >>

RECURSIVE chunk_text_blocks(_, _, _)
chunk_text_blocks(blocks, max_chars, overlap_chars) ==
  IF blocks = << >> THEN << >>
  ELSE LET block == Head(blocks)
       IN (IF Len(block.text) <= max_chars
           THEN <<block>>
           ELSE ChunkOne(block, 0, max_chars, overlap_chars))
          \o chunk_text_blocks(Tail(blocks), max_chars, overlap_chars)

\* The embedding of a text: one integer stands for the model's vector; equal
\* texts embed equally.
RECURSIVE get_embedding(_)
get_embedding(text) ==
  IF text = << >> THEN 0 ELSE Head(text) + get_embedding(Tail(text))

get_embeddings(texts) == [i \in 1..Len(texts) |-> get_embedding(texts[i])]

\* ------------------------------------------------------------ timestamps
\* A timestamp string is held as its three fixed-width parts: the date,
\* the character between date and time, and the time of day. Fixed-width
\* decimal fields compare as strings the way their numbers compare.
\* SQLite's CURRENT_TIMESTAMP prints 'YYYY-MM-DD HH:MM:SS'.
CurrentTimestamp(t) ==
  [date |-> t \div MinutesPerDay, sep |-> " ", time |-> t % MinutesPerDay]
\* datetime.isoformat() prints 'YYYY-MM-DDTHH:MM:SS.ffffff'.
IsoFormat(t) ==
  [date |-> t \div MinutesPerDay, sep |-> "T", time |-> t % MinutesPerDay]
\* The instant a timestamp string denotes.
Instant(ts) == ts.date * MinutesPerDay + ts.time
CharCode(c) == CASE c = " " -> 32 [] c = "T" -> 84
\* SQLite's < on two TEXT values: bytewise, left to right.
TextLess(x, y) ==
  \/ x.date < y.date
  \/ x.date = y.date /\ CharCode(x.sep) < CharCode(y.sep)
  \/ x.date = y.date /\ x.sep = y.sep /\ x.time < y.time

VARIABLES
  now,        \* the wall clock, in minutes
  ticks,      \* how often the clock has advanced
  files,      \* the session ids whose temp_pdfs/<id>.pdf exists
  colls,      \* the vector store: collection name -> its records
  registry,   \* the sessions table: session id -> its row
  used,       \* the session ids uuid4 has handed out
  req,        \* the request the event loop is running, and its response
  swPc,       \* where the sweeper thread stands
  swExpired,  \* cleanup_expired_sessions: the list `expired`
  swIdx,      \* the position of the for loop in it
  swCount,    \* the local `count`
  swLog,      \* what this run did to each session (for the properties)
  owed,       \* sessions whose teardown failed in the last finished run
  refreshed,  \* sessions touched since the sweeper last read the table
  storeOp,    \* the last vector-store call and its result (for the properties)
  _scheduler, \* cleanup.py's global: 0 for None, else the scheduler it names
  instances,  \* every BackgroundScheduler constructed so far
  lifecycle,  \* the start_scheduler / stop_scheduler calls made so far
  returned,   \* what the last of them returned (0 for None)
  _model,     \* embeddings.py's global: 0 for None, else the model it names
  loaded,     \* how many SentenceTransformer objects were constructed
  callers,    \* per thread: where it stands in get_model, and what it got
  chunker     \* one call of chunk_text_blocks: its arguments and locals

schedulerVars == <<_scheduler, instances, lifecycle, returned>>
embedderVars == <<_model, loaded, callers>>
\* The state of the process outside the three stores and the two threads.
chunkerVars == <<chunker>>
processVars == <<schedulerVars, embedderVars, chunkerVars>>
vars == <<now, ticks, files, colls, registry, used, req, swPc, swExpired,
          swIdx, swCount, swLog, owed, refreshed, storeOp, processVars>>
sweeperVars == <<swPc, swExpired, swIdx, swCount, swLog, owed>>
\* The stores, the event loop and the sweeper thread.
programVars == <<now, ticks, files, colls, registry, used, req, sweeperVars,
                 refreshed, storeOp>>

\* ------------------------------------------------------------ vector store
collection_name(session_id) == <<"session_", session_id>>
\* The store maps the names of the collections that exist to their records.
Put(f, k, v) == [x \in DOMAIN f \cup {k} |-> IF x = k THEN v ELSE f[x]]
Drop(f, k) == [x \in DOMAIN f \ {k} |-> f[x]]

\* One stored record: ids block_0.. are the positions of the sequence. The
\* document is the text; the metadata holds the page and the four corners
\* of the bbox, each under its own key. addedUnder keeps the session id the
\* add was called with.
Record(block, embedding, session_id) ==
  [text |-> block.text, page |-> block.page,
   bbox_x0 |-> block.bbox[1], bbox_y0 |-> block.bbox[2],
   bbox_x1 |-> block.bbox[3], bbox_y1 |-> block.bbox[4],
   embedding |-> embedding, addedUnder |-> session_id]

HasColl(store, session_id) == collection_name(session_id) \in DOMAIN store

\* The first half of create_collection: client.delete_collection(name),
\* where a missing collection (ValueError) is passed over.
create_collection_drop(store, session_id) ==
  Drop(store, collection_name(session_id))

\* client.create_collection(name): a new collection without records; a name
\* that exists is refused and the store stays as it is.
client_create_collection(store, session_id) ==
  IF HasColl(store, session_id) THEN store
  ELSE Put(store, collection_name(session_id), << >>)

\* client.delete_collection if it exists, then client.create_collection.
create_collection(store, session_id) ==
  client_create_collection(create_collection_drop(store, session_id),
                           session_id)

\* collection.add with ids block_0..block_{n-1}: an id the collection
\* already holds keeps its record, the others are appended.
add_documents(store, session_id, blocks, embeddings) ==
  LET base == IF HasColl(store, session_id) THEN store
              ELSE create_collection(store, session_id)
      old == base[collection_name(session_id)]
      n == IF Len(blocks) > Len(old) THEN Len(blocks) ELSE Len(old)
  IN Put(base, collection_name(session_id),
         [i \in 1..n |-> IF i <= Len(old) THEN old[i]
                         ELSE Record(blocks[i], embeddings[i], session_id)])

\* client.delete_collection; a missing collection (ValueError) is False.
delete_collection(store, session_id) ==
  Drop(store, collection_name(session_id))
delete_collection_result(store, session_id) == HasColl(store, session_id)

Distance(query_embedding, rec) == Abs(query_embedding - rec.embedding)

\* Position i comes before position j in the ranking: nearer first, and the
\* earlier id first among equally near ones.
Before(recs, qe, i, j) ==
  \/ Distance(qe, recs[i]) < Distance(qe, recs[j])
  \/ Distance(qe, recs[i]) = Distance(qe, recs[j]) /\ i < j
RankOf(recs, qe, i) ==
  1 + Cardinality({j \in 1..Len(recs) : j # i /\ Before(recs, qe, j, i)})
AtRank(recs, qe, r) == CHOOSE i \in 1..Len(recs) : RankOf(recs, qe, i) = r

\* A query that returns one result less than the nearest top_k.
query_one_short(store, session_id, query_embedding, top_k) ==
  IF ~HasColl(store, session_id) THEN << >>
  ELSE LET recs == store[collection_name(session_id)]
           n == Min(top_k, Len(recs))
       IN [r \in 1..(n - 1) |->
             LET rec == recs[AtRank(recs, query_embedding, r)]
             IN [id |-> r, text |-> rec.text, page |-> rec.page,
                 bbox |-> <<rec.bbox_x0, rec.bbox_y0, rec.bbox_x1,
                            rec.bbox_y1>>,
                 distance |-> Distance(query_embedding, rec),
                 addedUnder |-> rec.addedUnder]]

\* vector_store.query: [] without a collection, else the top_k nearest
\* records, each with its 1-based rank as "id".
query(store, session_id, query_embedding, top_k) ==
  IF ~HasColl(store, session_id) THEN << >>
  ELSE LET recs == store[collection_name(session_id)]
           n == Min(top_k, Len(recs))
       IN [r \in 1..n |->
             LET rec == recs[AtRank(recs, query_embedding, r)]
             IN [id |-> r, text |-> rec.text, page |-> rec.page,
                 bbox |-> <<rec.bbox_x0, rec.bbox_y0, rec.bbox_x1,
                            rec.bbox_y1>>,
                 distance |-> Distance(query_embedding, rec),
                 addedUnder |-> rec.addedUnder]]

\* ---------------------------------------------------------------- registry
\* The table maps the session ids that have a row to their rows.
HasRow(reg, session_id) == session_id \in DOMAIN reg

\* INSERT OR REPLACE ... VALUES (?, CURRENT_TIMESTAMP, CURRENT_TIMESTAMP, ?)
register_session(reg, session_id, pdf_filename, t) ==
  Put(reg, session_id,
      [created_at |-> CurrentTimestamp(t),
       last_accessed |-> CurrentTimestamp(t),
       pdf_filename |-> pdf_filename])

\* A touch written as an upsert (INSERT OR REPLACE), like register_session.
update_session_access_upsert(reg, session_id, t) ==
  Put(reg, session_id,
      [created_at |-> CurrentTimestamp(t),
       last_accessed |-> CurrentTimestamp(t),
       pdf_filename |-> IF session_id \in DOMAIN reg
                        THEN reg[session_id].pdf_filename ELSE "-"])

\* UPDATE sessions SET last_accessed = CURRENT_TIMESTAMP WHERE session_id = ?
update_session_access(reg, session_id, t) ==
  IF HasRow(reg, session_id)
  THEN [reg EXCEPT ![session_id].last_accessed = CurrentTimestamp(t)]
  ELSE reg

\* A selection of the rows that are not older than the cutoff.
get_expired_sessions_recent(reg, t) ==
  {s \in Sessions :
     /\ HasRow(reg, s)
     /\ ~TextLess(reg[s].last_accessed, IsoFormat(t - SESSION_EXPIRY_MINUTES))}

\* SELECT ... WHERE last_accessed < ?  with utcnow() - 30 min as isoformat().
get_expired_sessions(reg, t) ==
  {s \in Sessions :
     /\ HasRow(reg, s)
     /\ TextLess(reg[s].last_accessed, IsoFormat(t - SESSION_EXPIRY_MINUTES))}

\* DELETE FROM sessions WHERE session_id = ?
delete_row(reg, session_id) == Drop(reg, session_id)

\* ------------------------------------------------------------------ state
\* seen: how many records the session's collection held when the handler
\* found it (for the properties).
IdleReq == [kind |-> "none", sid |-> NoSid, pc |-> "idle", name |-> "-",
            blocks |-> << >>, q |-> << >>, seen |-> 0, status |-> 0,
            answer |-> "-", citations |-> << >>]
\* The handler has returned or raised: the response the client receives.
Response(kind, sid, status, answer, citations) ==
  [IdleReq EXCEPT !.kind = kind, !.sid = sid, !.pc = "done",
                  !.seen = IF kind = "chat" THEN req.seen ELSE 0,
                  !.status = status, !.answer = answer,
                  !.citations = citations]
NoLog == [tried |-> FALSE, steps |-> {}, failed |-> FALSE]
\* A vector-store call as the properties see it: the function and the
\* session it was called for, the blocks or the top_k it was given, how many
\* records the session's collection held when it was called, and its result.
StoreOp(op, sid, blocks, k, had, result) ==
  [op |-> op, sid |-> sid, blocks |-> blocks, k |-> k, had |-> had,
   result |-> result]
NoStoreOp == StoreOp("none", NoSid, << >>, 0, 0, << >>)
\* chunk_text_blocks not called: no arguments, no locals. `parent` keeps,
\* for every chunk of chunked_blocks, the position of the block the loop
\* stood at when it was appended (for the properties).
NoCall == [pc |-> "idle", blocks |-> << >>, max_chars |-> 0,
           overlap_chars |-> 0, i |-> 0, start |-> 0,
           chunked_blocks |-> << >>, parent |-> << >>]
\* The texts a client asks about.
Queries == {<<3>>}

Init ==
  /\ now \in StartTimes
  /\ ticks = 0
  /\ files = {}
  /\ colls = << >>
  /\ registry = << >>
  /\ used = {}
  /\ req = IdleReq
  /\ swPc = "idle"
  /\ swExpired = << >>
  /\ swIdx = 0
  /\ swCount = 0
  /\ swLog = [s \in Sessions |-> NoLog]
  /\ owed = {}
  /\ refreshed = {}
  /\ storeOp = NoStoreOp
  /\ _scheduler = 0
  /\ instances = << >>
  /\ lifecycle = << >>
  /\ returned = 0
  /\ _model = 0
  /\ loaded = 0
  /\ callers = [t \in Threads |->
                  [pc |-> "idle", local |-> 0, calls |-> 0, got |-> 0]]
  /\ chunker = NoCall

\* Time passes.
Tick ==
  /\ ticks < MaxTicks
  /\ \E d \in TickSteps : now' = now + d
  /\ ticks' = ticks + 1
  /\ UNCHANGED processVars
  /\ UNCHANGED <<files, colls, registry, used, req, sweeperVars, refreshed,
                 storeOp>>

\* The client has its response; the event loop takes the next request.
Respond ==
  /\ req.pc = "done"
  /\ req' = IdleReq
  /\ UNCHANGED processVars
  /\ UNCHANGED <<now, ticks, files, colls, registry, used, sweeperVars,
                 refreshed, storeOp>>

\* ------------------------------------------------------------- upload_pdf
\* session_id = uuid4(); the contents are written to temp_pdfs/<id>.pdf.
UploadSave ==
  /\ req.pc = "idle"
  /\ \E s \in Sessions \ used, f \in FileNames :
       /\ used' = used \cup {s}
       /\ files' = files \cup {s}
       /\ req' = [IdleReq EXCEPT !.kind = "upload", !.sid = s,
                                 !.pc = "extract", !.name = f]
  /\ UNCHANGED processVars
  /\ UNCHANGED <<now, ticks, colls, registry, sweeperVars, refreshed, storeOp>>

\* open() or write() raises: 500 "Failed to save PDF". A write that fails
\* after open() succeeded leaves the (partial) file behind.
UploadSaveFail ==
  /\ req.pc = "idle"
  /\ \E s \in Sessions \ used, left \in BOOLEAN :
       /\ used' = used \cup {s}
       /\ files' = IF left THEN files \cup {s} ELSE files
       /\ req' = Response("save", s, 500, "-", << >>)
  /\ UNCHANGED processVars
  /\ UNCHANGED <<now, ticks, colls, registry, sweeperVars, refreshed, storeOp>>

\* extract_text_blocks returned blocks; chunk_text_blocks(blocks) and
\* get_embeddings(texts) returned.
UploadExtract ==
  /\ req.kind = "upload" /\ req.pc = "extract"
  /\ \E doc \in Documents \ {<< >>} :
       req' = [req EXCEPT !.pc = "create",
                 !.blocks = chunk_text_blocks(doc, MAX_CHARS, OVERLAP_CHARS)]
  /\ UNCHANGED processVars
  /\ UNCHANGED <<now, ticks, files, colls, registry, used, sweeperVars,
                 refreshed, storeOp>>

\* `if not blocks: raise HTTPException(400)`; `except HTTPException: raise`
\* passes it on; what it removes on the way is nothing.
empty_document_cleanup(fs, session_id) == fs

UploadEmpty ==
  /\ req.kind = "upload" /\ req.pc = "extract"
  /\ << >> \in Documents
  /\ files' = empty_document_cleanup(files, req.sid)
  /\ req' = Response("upload", req.sid, 400, "No text content found in PDF",
                     << >>)
  /\ UNCHANGED processVars
  /\ UNCHANGED <<now, ticks, colls, registry, used, sweeperVars, refreshed,
                 storeOp>>

UploadCreate ==
  /\ req.kind = "upload" /\ req.pc = "create"
  /\ colls' = create_collection(colls, req.sid)
  /\ req' = [req EXCEPT !.pc = "add"]
  /\ UNCHANGED processVars
  /\ UNCHANGED <<now, ticks, files, registry, used, sweeperVars, refreshed,
                 storeOp>>

UploadAdd ==
  /\ req.kind = "upload" /\ req.pc = "add"
  /\ colls' = add_documents(colls, req.sid, req.blocks,
                get_embeddings([i \in 1..Len(req.blocks) |-> req.blocks[i].text]))
  /\ req' = [req EXCEPT !.pc = "register"]
  /\ UNCHANGED processVars
  /\ UNCHANGED <<now, ticks, files, registry, used, sweeperVars, refreshed,
                 storeOp>>

\* register_session, then the UploadResponse.
UploadRegister ==
  /\ req.kind = "upload" /\ req.pc = "register"
  /\ registry' = register_session(registry, req.sid, req.name, now)
  /\ req' = Response("upload", req.sid, 200, "PDF processed successfully",
                     << >>)
  /\ UNCHANGED processVars
  /\ UNCHANGED <<now, ticks, files, colls, used, sweeperVars, refreshed,
                 storeOp>>

\* `except Exception`: what the handler removes before it raises the 500.
upload_cleanup(fs, store, session_id) ==
  [files |-> fs \ {session_id}, colls |-> store]

\* The step the upload stands at raises an exception other than
\* HTTPException (extraction, chunking, embedding, the vector store or the
\* registry): the except branch runs and the 500 is raised.
UploadFail ==
  /\ req.kind = "upload"
  /\ req.pc \in {"extract", "create", "add", "register"}
  /\ LET left == upload_cleanup(files, colls, req.sid)
     IN /\ files' = left.files
        /\ colls' = left.colls
  /\ req' = Response("upload", req.sid, 500, "Failed to process PDF", << >>)
  /\ UNCHANGED processVars
  /\ UNCHANGED <<now, ticks, registry, used, sweeperVars, refreshed, storeOp>>

\* ---------------------------------------------- chat, get_session_status
\* A handler that refreshes the session before it looks for the collection.
RequestCheckTouchesFirst(kind, s, q) ==
  /\ req.pc = "idle"
  /\ registry' = update_session_access(registry, s, now)
  /\ req' = IF HasColl(colls, s)
            THEN [IdleReq EXCEPT !.kind = kind, !.sid = s, !.pc = "touch",
                                 !.q = q,
                                 !.seen = Len(colls[collection_name(s)])]
            ELSE Response(kind, s, 404, "Session not found", << >>)
  /\ UNCHANGED processVars
  /\ UNCHANGED <<now, ticks, files, colls, used, sweeperVars, refreshed,
                 storeOp>>

\* get_collection(session_id): None is the 404, otherwise the handler goes on.
RequestCheck(kind, s, q) ==
  /\ req.pc = "idle"
  /\ req' = IF HasColl(colls, s)
            THEN [IdleReq EXCEPT !.kind = kind, !.sid = s, !.pc = "touch",
                                 !.q = q,
                                 !.seen = Len(colls[collection_name(s)])]
            ELSE Response(kind, s, 404, "Session not found", << >>)
  /\ UNCHANGED processVars
  /\ UNCHANGED <<now, ticks, files, colls, registry, used, sweeperVars,
                 refreshed, storeOp>>

ChatCheck == \E s \in Sessions, q \in Queries : RequestCheck("chat", s, q)
StatusCheck == \E s \in Sessions : RequestCheck("status", s, << >>)

\* update_session_access(session_id); the status check answers "active".
RequestTouch ==
  /\ req.pc = "touch"
  /\ registry' = update_session_access(registry, req.sid, now)
  /\ refreshed' = IF HasRow(registry, req.sid)
                     /\ req.sid \in owed \cup Range(swExpired)
                  THEN refreshed \cup {req.sid} ELSE refreshed
  /\ req' = IF req.kind = "status"
            THEN Response("status", req.sid, 200, "active", << >>)
            ELSE [req EXCEPT !.pc = "query"]
  /\ UNCHANGED processVars
  /\ UNCHANGED <<now, ticks, files, colls, used, sweeperVars, storeOp>>

\* Citations numbered from zero.
CitationsZeroBased(results) ==
  [i \in 1..Len(results) |->
     [id |-> i - 1, text |-> results[i].text, page |-> results[i].page,
      bbox |-> results[i].bbox]]

\* One Citation per result, with id = position + 1.
Citations(results) ==
  [i \in 1..Len(results) |->
     [id |-> i, text |-> results[i].text, page |-> results[i].page,
      bbox |-> results[i].bbox]]

\* The ChatResponse for the results of the query.
ChatResponse(results) ==
  IF results = << >>
  THEN Response("chat", req.sid, 200, "no relevant information", << >>)
  ELSE Response("chat", req.sid, 200, "found", Citations(results))

\* get_embedding(query_text); query(session_id, query_embedding, top_k=3)
\* begins: its get_collection finds the collection, or query returns [] and
\* chat answers that it found nothing.
ChatQuery ==
  /\ req.kind = "chat" /\ req.pc = "query"
  /\ req' = IF HasColl(colls, req.sid)
            THEN [req EXCEPT !.pc = "search"]
            ELSE ChatResponse(query(colls, req.sid, get_embedding(req.q),
                                    TOP_K))
  /\ UNCHANGED processVars
  /\ UNCHANGED <<now, ticks, files, colls, registry, used, sweeperVars,
                 refreshed, storeOp>>

\* collection.query(...) on the collection found; the results are formatted
\* and chat builds the ChatResponse.
ChatSearch ==
  /\ req.kind = "chat" /\ req.pc = "search"
  /\ HasColl(colls, req.sid)
  /\ req' = ChatResponse(query(colls, req.sid, get_embedding(req.q), TOP_K))
  /\ UNCHANGED processVars
  /\ UNCHANGED <<now, ticks, files, colls, registry, used, sweeperVars,
                 refreshed, storeOp>>

\* collection.query(...) on a collection the sweeper has deleted since it
\* was found: the client raises, chat does not catch it, the answer is 500.
ChatSearchFails ==
  /\ req.kind = "chat" /\ req.pc = "search"
  /\ ~HasColl(colls, req.sid)
  /\ req' = Response("chat", req.sid, 500, "Internal Server Error", << >>)
  /\ UNCHANGED processVars
  /\ UNCHANGED <<now, ticks, files, colls, registry, used, sweeperVars,
                 refreshed, storeOp>>

\* ------------------------------------------------ cleanup_expired_sessions
\* The rows of the SELECT come in an order SQL does not fix.
Orderings(S) ==
  {seq \in [1..Cardinality(S) -> S] : \A i, j \in 1..Cardinality(S) :
                                          seq[i] = seq[j] => i = j}

\* delete_session: the collection, then the file, then the row.
delete_session_steps == <<"coll", "file", "row">>
StepAfter(step) ==
  LET k == CHOOSE i \in 1..Len(delete_session_steps) :
             delete_session_steps[i] = step
  IN IF k < Len(delete_session_steps) THEN delete_session_steps[k + 1]
     ELSE "end"

\* The for loop moves on to the next expired session, or ends.
NextSession(idx, expired) ==
  IF idx < Len(expired)
  THEN [pc |-> delete_session_steps[1], idx |-> idx + 1]
  ELSE [pc |-> "return", idx |-> idx + 1]

\* `except Exception as e: print(...)`: the loop goes on.
AfterFailure(idx, expired) == NextSession(idx, expired)

\* expired = get_expired_sessions(); count = 0
SweepStart ==
  /\ swPc = "idle"
  /\ \E order \in Orderings(get_expired_sessions(registry, now)) :
       /\ swExpired' = order
       /\ swPc' = IF order = << >> THEN "return" ELSE delete_session_steps[1]
  /\ swIdx' = 1
  /\ swCount' = 0
  /\ refreshed' = {}
  /\ UNCHANGED processVars
  /\ UNCHANGED <<now, ticks, files, colls, registry, used, req, swLog, owed,
                 storeOp>>

Current == swExpired[swIdx]

\* One step of delete_session(Current) returned: the next step, or, after the
\* last one, `count += 1` and the next session.
StepDone(step) ==
  /\ swLog' = [swLog EXCEPT ![Current].tried = TRUE,
                            ![Current].steps = @ \cup {step}]
  /\ IF StepAfter(step) = "end"
     THEN /\ swCount' = swCount + 1
          /\ swPc' = NextSession(swIdx, swExpired).pc
          /\ swIdx' = NextSession(swIdx, swExpired).idx
     ELSE /\ swPc' = StepAfter(step)
          /\ UNCHANGED <<swCount, swIdx>>
  /\ UNCHANGED <<swExpired, owed>>

\* vector_store.delete_collection(session_id)
SweepDeleteCollection ==
  /\ swPc = "coll"
  /\ colls' = delete_collection(colls, Current)
  /\ StepDone("coll")
  /\ UNCHANGED processVars
  /\ UNCHANGED <<now, ticks, files, registry, used, req, refreshed, storeOp>>

\* if pdf_path.exists(): pdf_path.unlink()
SweepDeleteFile ==
  /\ swPc = "file"
  /\ files' = files \ {Current}
  /\ StepDone("file")
  /\ UNCHANGED processVars
  /\ UNCHANGED <<now, ticks, colls, registry, used, req, refreshed, storeOp>>

\* DELETE FROM sessions WHERE session_id = ?; commit
SweepDeleteRow ==
  /\ swPc = "row"
  /\ registry' = delete_row(registry, Current)
  /\ StepDone("row")
  /\ UNCHANGED processVars
  /\ UNCHANGED <<now, ticks, files, colls, used, req, refreshed, storeOp>>

\* The step delete_session stands at raises (the vector store or the
\* database is unavailable, unlink is refused): nothing is removed by it,
\* the except branch logs and the loop goes on.
SweepStepFails ==
  /\ swPc \in Range(delete_session_steps)
  /\ swPc = "file" => Current \in files
  /\ swLog' = [swLog EXCEPT ![Current].tried = TRUE, ![Current].failed = TRUE]
  /\ swPc' = AfterFailure(swIdx, swExpired).pc
  /\ swIdx' = AfterFailure(swIdx, swExpired).idx
  /\ UNCHANGED processVars
  /\ UNCHANGED <<now, ticks, files, colls, registry, used, req, swExpired,
                 swCount, owed, refreshed, storeOp>>

\* return count. The sessions whose teardown failed in this run are owed a
\* retry by the next one.
SweepReturn ==
  /\ swPc = "return"
  /\ swPc' = "idle"
  /\ owed' = {s \in Sessions : swLog[s].failed}
  /\ refreshed' = {s \in refreshed : swLog[s].failed}
  /\ swLog' = [s \in Sessions |-> NoLog]
  /\ swExpired' = << >>
  /\ swIdx' = 0
  /\ swCount' = 0
  /\ UNCHANGED processVars
  /\ UNCHANGED <<now, ticks, files, colls, registry, used, req, storeOp>>

Next ==
  \/ Tick
  \/ Respond
  \/ UploadSave
  \/ UploadSaveFail
  \/ UploadExtract
  \/ UploadEmpty
  \/ UploadCreate
  \/ UploadAdd
  \/ UploadRegister
  \/ UploadFail
  \/ ChatCheck
  \/ StatusCheck
  \/ RequestTouch
  \/ ChatQuery
  \/ ChatSearch
  \/ ChatSearchFails
  \/ SweepStart
  \/ SweepDeleteCollection
  \/ SweepDeleteFile
  \/ SweepDeleteRow
  \/ SweepStepFails
  \/ SweepReturn

Spec == Init /\ [][Next]_vars

\* The program under a fair scheduler: time passes, the interval job starts
\* cleanup_expired_sessions again and again and every run goes on to its
\* end; each step of delete_session, tried again and again for a session,
\* succeeds at some time.
Fairness ==
  /\ WF_vars(Tick)
  /\ WF_vars(SweepStart)
  /\ WF_vars(SweepReturn)
  /\ \A s \in Sessions :
       /\ SF_vars(SweepDeleteCollection /\ swExpired[swIdx] = s)
       /\ SF_vars(SweepDeleteFile /\ swExpired[swIdx] = s)
       /\ SF_vars(SweepDeleteRow /\ swExpired[swIdx] = s)

\* The behaviours in which one client uploads: uuid4 is drawn once at most.
OneUpload == Cardinality(used') <= 1
\* Next with that restriction on the two steps that draw a uuid4.
LiveNext ==
  \/ Tick
  \/ Respond
  \/ UploadSave /\ OneUpload
  \/ UploadSaveFail /\ OneUpload
  \/ UploadExtract
  \/ UploadEmpty
  \/ UploadCreate
  \/ UploadAdd
  \/ UploadRegister
  \/ UploadFail
  \/ ChatCheck
  \/ StatusCheck
  \/ RequestTouch
  \/ ChatQuery
  \/ ChatSearch
  \/ ChatSearchFails
  \/ SweepStart
  \/ SweepDeleteCollection
  \/ SweepDeleteFile
  \/ SweepDeleteRow
  \/ SweepStepFails
  \/ SweepReturn

LiveSpec == Init /\ [][LiveNext]_vars /\ Fairness

\* ------------------------------------------- the vector store on its own
\* Any sequence of create / add / query / delete calls, on any session.
SeqsUpTo(S, n) == UNION {[1..k -> S] : k \in 0..n}
BlockLists == SeqsUpTo({BlockX, BlockY}, MaxBlocks) \ {<< >>}

\* How many records the session's collection holds (0 without one).
Count(store, session_id) ==
  IF HasColl(store, session_id) THEN Len(store[collection_name(session_id)])
  ELSE 0

\* create_collection is two calls of the client. Between them another
\* thread may read the store; writers to the same session there are none,
\* because every upload draws a new id.
Creating == storeOp.op = "creating"

\* create_collection, first call: client.delete_collection(name).
StoreCreateDrop ==
  \E s \in Sessions :
    /\ ~Creating
    /\ colls' = create_collection_drop(colls, s)
    /\ storeOp' = StoreOp("creating", s, << >>, 0, Count(colls, s), << >>)
    /\ UNCHANGED processVars
    /\ UNCHANGED <<now, ticks, files, registry, used, req, sweeperVars,
                   refreshed>>

\* create_collection, second call: client.create_collection(name).
StoreCreate ==
  /\ Creating
  /\ colls' = client_create_collection(colls, storeOp.sid)
  /\ storeOp' = [storeOp EXCEPT !.op = "create"]
  /\ UNCHANGED processVars
  /\ UNCHANGED <<now, ticks, files, registry, used, req, sweeperVars,
                 refreshed>>

StoreAdd ==
  \E s \in Sessions, blocks \in BlockLists :
    /\ ~Creating
    /\ colls' = add_documents(colls, s, blocks,
                  get_embeddings([i \in 1..Len(blocks) |-> blocks[i].text]))
    /\ storeOp' = StoreOp("add", s, blocks, 0, Count(colls, s), << >>)
    /\ UNCHANGED processVars
    /\ UNCHANGED <<now, ticks, files, registry, used, req, sweeperVars,
                   refreshed>>

\* A query; one that runs between the two calls of a create is kept in
\* `result` of the create in flight.
StoreQuery ==
  \E s \in Sessions, q \in Queries, k \in 1..TOP_K :
    /\ storeOp' =
         IF Creating
         THEN [storeOp EXCEPT !.k = k,
                 !.result = <<[sid |-> s,
                               got |-> query(colls, s, get_embedding(q), k)]>>]
         ELSE StoreOp("query", s, << >>, k, Count(colls, s),
                      query(colls, s, get_embedding(q), k))
    /\ UNCHANGED processVars
    /\ UNCHANGED <<now, ticks, files, colls, registry, used, req, sweeperVars,
                   refreshed>>

StoreDelete ==
  \E s \in Sessions :
    /\ ~Creating
    /\ colls' = delete_collection(colls, s)
    /\ storeOp' = StoreOp("delete", s, << >>, 0, Count(colls, s),
                          <<delete_collection_result(colls, s)>>)
    /\ UNCHANGED processVars
    /\ UNCHANGED <<now, ticks, files, registry, used, req, sweeperVars,
                   refreshed>>

StoreNext ==
  \/ StoreCreateDrop
  \/ StoreCreate
  \/ StoreAdd
  \/ StoreQuery
  \/ StoreDelete

StoreSpec == Init /\ [][StoreNext]_vars

\* ------------------------------------------ start_scheduler, stop_scheduler
\* BackgroundScheduler(): not running, no jobs.
BackgroundScheduler == [running |-> FALSE, jobs |-> << >>]

\* add_job(..., id=id, replace_existing=...): a job of that id takes the
\* place of the one the scheduler holds, or is added to its jobs.
add_job(sch, id, replace_existing) ==
  IF id \in Range(sch.jobs)
  THEN sch
  ELSE [sch EXCEPT !.jobs = Append(@, id)]
start(sch) == [sch EXCEPT !.running = TRUE]
shutdown(sch) == [sch EXCEPT !.running = FALSE]

\* A start that does not look at _scheduler first.
start_scheduler_unguarded(glob, insts) ==
  [scheduler |-> Len(insts) + 1,
   instances |-> Append(insts, start(add_job(BackgroundScheduler,
                                             "cleanup_sessions", TRUE))),
   returned |-> Len(insts) + 1]

\* start_scheduler: the global and the schedulers after the call, and the
\* scheduler it returns.
start_scheduler(glob, insts) ==
  IF glob # 0
  THEN [scheduler |-> glob, instances |-> insts, returned |-> glob]
  ELSE [scheduler |-> Len(insts) + 1,
        instances |-> Append(insts, start(add_job(BackgroundScheduler,
                                                  "cleanup_sessions", TRUE))),
        returned |-> Len(insts) + 1]

\* stop_scheduler: shutdown() and _scheduler = None, if there is one.
stop_scheduler(glob, insts) ==
  IF glob # 0
  THEN [scheduler |-> 0,
        instances |-> [insts EXCEPT ![glob] = shutdown(@)],
        returned |-> 0]
  ELSE [scheduler |-> glob, instances |-> insts, returned |-> 0]

\* The lifecycle hooks call the two functions one after the other, in any
\* order and any number of times.
StartScheduler ==
  /\ Len(lifecycle) < MaxCalls
  /\ LET after == start_scheduler(_scheduler, instances)
     IN /\ _scheduler' = after.scheduler
        /\ instances' = after.instances
        /\ returned' = after.returned
  /\ lifecycle' = Append(lifecycle, "start")
  /\ UNCHANGED <<embedderVars, chunkerVars, programVars>>

StopScheduler ==
  /\ Len(lifecycle) < MaxCalls
  /\ LET after == stop_scheduler(_scheduler, instances)
     IN /\ _scheduler' = after.scheduler
        /\ instances' = after.instances
        /\ returned' = after.returned
  /\ lifecycle' = Append(lifecycle, "stop")
  /\ UNCHANGED <<embedderVars, chunkerVars, programVars>>

SchedulerNext == StartScheduler \/ StopScheduler

SchedulerSpec == Init /\ [][SchedulerNext]_vars

\* ---------------------------------------------------------------- get_model
\* get_model as the threads of Threads run it, one bytecode step at a time.
\* get_embedding / get_embeddings enters get_model.
GetModelCall(t) ==
  /\ callers[t].pc = "idle"
  /\ callers[t].calls < MaxGets
  /\ callers' = [callers EXCEPT ![t].pc = "test"]
  /\ UNCHANGED <<_model, loaded, schedulerVars, chunkerVars,
                 programVars>>

\* if _model is None:
GetModelTest(t) ==
  /\ callers[t].pc = "test"
  /\ callers' = [callers EXCEPT
                   ![t].pc = IF _model = 0 THEN "construct" ELSE "return"]
  /\ UNCHANGED <<_model, loaded, schedulerVars, chunkerVars,
                 programVars>>

\* SentenceTransformer('all-MiniLM-L6-v2'): a new object.
GetModelConstruct(t) ==
  /\ callers[t].pc = "construct"
  /\ loaded' = loaded + 1
  /\ callers' = [callers EXCEPT ![t].pc = "assign", ![t].local = loaded + 1]
  /\ UNCHANGED <<_model, schedulerVars, chunkerVars,
                 programVars>>

\* _model = <the new object>
GetModelAssign(t) ==
  /\ callers[t].pc = "assign"
  /\ _model' = callers[t].local
  /\ callers' = [callers EXCEPT ![t].pc = "return", ![t].local = 0]
  /\ UNCHANGED <<loaded, schedulerVars, chunkerVars,
                 programVars>>

\* return _model
GetModelReturn(t) ==
  /\ callers[t].pc = "return"
  /\ callers' = [callers EXCEPT ![t].pc = "idle", ![t].got = _model,
                                ![t].calls = @ + 1]
  /\ UNCHANGED <<_model, loaded, schedulerVars, chunkerVars,
                 programVars>>

EmbedderNext ==
  \/ \E t \in Threads : GetModelCall(t)
  \/ \E t \in Threads : GetModelTest(t)
  \/ \E t \in Threads : GetModelConstruct(t)
  \/ \E t \in Threads : GetModelAssign(t)
  \/ \E t \in Threads : GetModelReturn(t)

EmbedderSpec == Init /\ [][EmbedderNext]_vars

\* -------------------------------------------------------- chunk_text_blocks
\* The text of n characters 1, 2, .., n: a slice shows where it was cut.
Text(n) == [c \in 1..n |-> c]
\* The blocks the chunker is called with: every length up to MaxText, on
\* two pages.
ChunkerBlocks ==
  {DataBlock(Text(n), page, <<0, 0, 10 * page, 10>>) :
     n \in 0..MaxText, page \in 1..2}
ChunkerInputs == SeqsUpTo(ChunkerBlocks, MaxBlocks)

\* chunk_text_blocks(blocks, max_chars, overlap_chars) is called with
\* 0 <= overlap_chars < max_chars; chunked_blocks = [].
ChunkerCall ==
  /\ chunker.pc = "idle"
  /\ \E blocks \in ChunkerInputs, max_chars \in 1..MaxWindow :
       \E overlap_chars \in 0..(max_chars - 1) :
          chunker' = [NoCall EXCEPT !.pc = "for", !.blocks = blocks,
                                    !.max_chars = max_chars,
                                    !.overlap_chars = overlap_chars, !.i = 1]
  /\ UNCHANGED <<schedulerVars, embedderVars, programVars>>

\* The block the for loop stands at.
Block == chunker.blocks[chunker.i]

\* for block in blocks: a block that fits is appended as it is.
ChunkerAppend ==
  /\ chunker.pc = "for" /\ chunker.i <= Len(chunker.blocks)
  /\ Fits(Block, chunker.max_chars)
  /\ chunker' = [chunker EXCEPT !.chunked_blocks = Append(@, Block),
                                !.parent = Append(@, chunker.i),
                                !.i = @ + 1]
  /\ UNCHANGED <<schedulerVars, embedderVars, programVars>>

\* else: text = block.text; start = 0
ChunkerSplit ==
  /\ chunker.pc = "for" /\ chunker.i <= Len(chunker.blocks)
  /\ ~Fits(Block, chunker.max_chars)
  /\ chunker' = [chunker EXCEPT !.pc = "while", !.start = 0]
  /\ UNCHANGED <<schedulerVars, embedderVars, programVars>>

\* while start < len(text): one slice is appended and start moves on.
ChunkerSlice ==
  /\ chunker.pc = "while" /\ chunker.start < Len(Block.text)
  /\ LET end == SliceEnd(Block.text, chunker.start, chunker.max_chars)
     IN chunker' =
          [chunker EXCEPT
             !.chunked_blocks = Append(@, Chunk(Block, chunker.start, end)),
             !.parent = Append(@, chunker.i),
             !.start = NextStart(Block.text, end, chunker.overlap_chars)]
  /\ UNCHANGED <<schedulerVars, embedderVars, programVars>>

\* The while loop ends; the for loop takes the next block.
ChunkerNextBlock ==
  /\ chunker.pc = "while" /\ ~(chunker.start < Len(Block.text))
  /\ chunker' = [chunker EXCEPT !.pc = "for", !.start = 0, !.i = @ + 1]
  /\ UNCHANGED <<schedulerVars, embedderVars, programVars>>

\* return chunked_blocks
ChunkerReturn ==
  /\ chunker.pc = "for" /\ chunker.i > Len(chunker.blocks)
  /\ chunker' = [chunker EXCEPT !.pc = "returned"]
  /\ UNCHANGED <<schedulerVars, embedderVars, programVars>>

ChunkerNext ==
  \/ ChunkerCall
  \/ ChunkerAppend
  \/ ChunkerSplit
  \/ ChunkerSlice
  \/ ChunkerNextBlock
  \/ ChunkerReturn

ChunkerSpec == Init /\ [][ChunkerNext]_vars

\* The calls whose blocks all lie on page 1 (the page of a block has no
\* part in the control flow).
OnePage == \A i \in 1..Len(chunker'.blocks) : chunker'.blocks[i].page = 1
ChunkerLiveNext ==
  \/ ChunkerCall /\ OnePage
  \/ ChunkerAppend
  \/ ChunkerSplit
  \/ ChunkerSlice
  \/ ChunkerNextBlock
  \/ ChunkerReturn

\* The steps of a call in progress.
ChunkerRuns ==
  ChunkerAppend \/ ChunkerSplit \/ ChunkerSlice \/ ChunkerNextBlock
    \/ ChunkerReturn

\* The interpreter goes on running a call it has begun: a step that can be
\* taken is taken.
ChunkerLiveSpec ==
  Init /\ [][ChunkerLiveNext]_vars /\ WF_vars(ChunkerRuns)

\* ============================================================ properties
Ingesting(s) == req.kind = "upload" /\ req.sid = s /\ req.pc # "done"
TearingDown(s) == swPc \in Range(delete_session_steps) /\ Current = s
\* The upload handler has raised its error to the caller.
UploadRejected == req.kind = "upload" /\ req.pc = "done" /\ req.status # 200
\* last_accessed lies more than the TTL before t.
TtlElapsed(reg, s, t) ==
  /\ HasRow(reg, s)
  /\ Instant(reg[s].last_accessed) < t - SESSION_EXPIRY_MINUTES
SweepStarts == swPc = "idle" /\ swPc' # "idle"
AllSteps == Range(delete_session_steps)

\* C1: when upload_pdf returns an error raised after the temporary file was
\* written, neither the file nor a collection of that session_id is left.
Claim_C1 ==
  UploadRejected => req.sid \notin files /\ ~HasColl(colls, req.sid)

\* C2: when the rejection of a document without text blocks has been
\* returned, the session_id has no temporary file, no collection and no row.
Claim_C2 ==
  (UploadRejected /\ req.status = 400) =>
     /\ req.sid \notin files
     /\ ~HasColl(colls, req.sid)
     /\ ~HasRow(registry, req.sid)

\* C3: for every session that is neither being ingested nor being torn down,
\* the row, the collection and the temporary file exist together or not at
\* all.
Claim_C3 ==
  \A s \in Sessions :
    (~Ingesting(s) /\ ~TearingDown(s)) =>
       /\ HasRow(registry, s) <=> HasColl(colls, s)
       /\ HasColl(colls, s) <=> s \in files

\* C4: a finished chat query is either the 404 or an answer that cites the
\* records the session held when the handler found its collection (as many
\* as top_k allows); nothing in between.
Claim_C4 ==
  (req.kind = "chat" /\ req.pc = "done") =>
     \/ req.status = 404
     \/ /\ req.status = 200
        /\ Len(req.citations) = Min(TOP_K, req.seen)

\* C5: the expired set a sweep computes is exactly the set of sessions whose
\* last_accessed is more than 30 minutes before the time of the sweep.
Claim_C5 ==
  [][SweepStarts =>
       Range(swExpired') = {s \in Sessions : TtlElapsed(registry, s, now)}]_vars

\* C6: when a run of cleanup_expired_sessions returns, every session of its
\* expired set was attempted, whether or not an earlier one failed, and the
\* count is the number of sessions whose three steps all completed.
Thm_C6 ==
  swPc = "return" =>
    /\ \A s \in Range(swExpired) : swLog[s].tried
    /\ swCount = Cardinality({s \in Sessions : swLog[s].steps = AllSteps})
Wit_C6 ==
  /\ swPc = "return"
  /\ Len(swExpired) = 2
  /\ swLog[swExpired[1]].failed
  /\ swLog[swExpired[2]].steps = AllSteps
  /\ swCount = 1

\* C7 as stated: a session whose teardown failed keeps its row, and the
\* expired set of the next sweep contains it.
Claim_C7 ==
  [][/\ \A s \in Sessions : swLog'[s].failed => HasRow(registry', s)
     /\ swPc' = "idle" => \A s \in owed' : HasRow(registry', s)
     /\ SweepStarts => owed \subseteq Range(swExpired')]_vars

\* C7, amended: a session whose teardown failed keeps its row, and the
\* expired set of the next sweep contains it unless a chat query or status
\* check has refreshed its last_accessed since the failed run read the table.
Thm_C7 ==
  [][/\ \A s \in Sessions : swLog'[s].failed => HasRow(registry', s)
     /\ swPc' = "idle" => \A s \in owed' : HasRow(registry', s)
     /\ SweepStarts => (owed \ refreshed) \subseteq Range(swExpired')]_vars
Wit_C7 ==
  \E s \in owed :
    /\ swPc # "idle"
    /\ s \in Range(swExpired)
    /\ swLog[s].steps = AllSteps
    /\ ~HasRow(registry, s)

\* The handler's first step, taken for session s.
Checks(s) ==
  req.pc = "idle" /\ req'.kind \in {"chat", "status"} /\ req'.sid = s
NotFoundNoMutation ==
  /\ req'.pc = "done" /\ req'.status = 404
  /\ registry' = registry /\ colls' = colls /\ files' = files

\* C8 as stated: a chat query or status check on a session that has no
\* collection, or whose TTL has elapsed, is answered 404 and changes nothing.
Claim_C8 ==
  [][\A s \in Sessions :
       (Checks(s) /\ (~HasColl(colls, s) \/ TtlElapsed(registry, s, now)))
          => NotFoundNoMutation]_vars

\* C8, amended: a chat query or status check on a session that has no
\* collection (never ingested, or already torn down) is answered 404 and
\* changes no row, no collection and no file.
Thm_C8 ==
  [][\A s \in Sessions :
       (Checks(s) /\ ~HasColl(colls, s)) => NotFoundNoMutation]_vars
Wit_C8 ==
  /\ req.kind = "chat" /\ req.pc = "done" /\ req.status = 404
  /\ HasRow(registry, req.sid)
  /\ Instant(registry[req.sid].last_accessed) < now

\* C9: a vector-store call on one session leaves every other session's
\* collection as it was (its existence and its records), and a query
\* returns only records that were added under the session it asks for.
Thm_C9 ==
  [][/\ \A b \in Sessions \ {storeOp'.sid} :
          /\ HasColl(colls', b) <=> HasColl(colls, b)
          /\ HasColl(colls, b) =>
               colls'[collection_name(b)] = colls[collection_name(b)]
     /\ storeOp'.op = "query" =>
          \A i \in 1..Len(storeOp'.result) :
             storeOp'.result[i].addedUnder = storeOp'.sid]_vars
Wit_C9 ==
  /\ storeOp.op = "query" /\ storeOp.sid = "a" /\ storeOp.result # << >>
  /\ HasColl(colls, "b")
  /\ colls[collection_name("b")] # << >>

\* The step that runs update_session_access.
Touches == req.pc = "touch" /\ req'.pc # "touch"

\* C10: the touch of a chat query or status check sets the session's
\* last_accessed to the current time and nothing else: created_at, the file
\* name and every other row stay, and no row appears for an id without one.
Thm_C10 ==
  [][Touches =>
       /\ DOMAIN registry' = DOMAIN registry
       /\ \A s \in DOMAIN registry :
            /\ registry'[s].created_at = registry[s].created_at
            /\ registry'[s].pdf_filename = registry[s].pdf_filename
            /\ registry'[s].last_accessed =
                 IF s = req.sid THEN CurrentTimestamp(now)
                 ELSE registry[s].last_accessed]_vars
Wit_C10 ==
  /\ req.kind = "status" /\ req.pc = "done" /\ req.status = 200
  /\ HasRow(registry, req.sid)
  /\ registry[req.sid].last_accessed = CurrentTimestamp(now)
  /\ registry[req.sid].created_at # registry[req.sid].last_accessed
  /\ \E s \in Sessions \ {req.sid} : HasRow(registry, s)

\* C11: every add appends one record per block: after the call the session's
\* collection exists and holds as many records as it held before the call
\* plus the number of blocks given (so that, call after call, the count is
\* the sum of the lengths of the lists added).
Claim_C11 ==
  [][storeOp'.op = "add" =>
       /\ HasColl(colls', storeOp'.sid)
       /\ Count(colls', storeOp'.sid)
            = storeOp'.had + Len(storeOp'.blocks)]_vars

\* A query result and a block agree in text, page and bbox.
SameBlock(result, block) ==
  /\ result.text = block.text
  /\ result.page = block.page
  /\ result.bbox = block.bbox

\* C12: a query with top_k = len(blocks) that follows add(session, blocks,
\* embeddings) on a collection without records returns len(blocks) results,
\* and the results are the blocks, each one once, in some order.
Thm_C12 ==
  [][(/\ storeOp.op = "add" /\ storeOp.had = 0
      /\ storeOp'.op = "query" /\ storeOp'.sid = storeOp.sid
      /\ storeOp'.k = Len(storeOp.blocks))
     => /\ Len(storeOp'.result) = Len(storeOp.blocks)
        /\ \E p \in Orderings(1..Len(storeOp.blocks)) :
             \A i \in 1..Len(storeOp.blocks) :
                SameBlock(storeOp'.result[i], storeOp.blocks[p[i]])]_vars
Wit_C12 ==
  /\ storeOp.op = "query" /\ storeOp.k = 2 /\ storeOp.had = 2
  /\ Len(storeOp.result) = 2
  /\ SameBlock(storeOp.result[1], BlockX)
  /\ SameBlock(storeOp.result[2], BlockY)

\* C13: after delete(session) the session has no collection; a delete that
\* follows a delete of the same session changes nothing and returns False; a
\* query on a session without a collection (deleted, or never created)
\* returns the empty sequence and changes nothing.
Thm_C13 ==
  [][/\ storeOp'.op = "delete" => ~HasColl(colls', storeOp'.sid)
     /\ (/\ storeOp.op = "delete" /\ storeOp'.op = "delete"
         /\ storeOp'.sid = storeOp.sid)
        => storeOp'.result = <<FALSE>> /\ colls' = colls
     /\ (storeOp'.op = "query" /\ ~HasColl(colls, storeOp'.sid))
        => storeOp'.result = << >> /\ colls' = colls]_vars
Wit_C13 ==
  /\ storeOp.op = "delete" /\ storeOp.result = <<FALSE>>
  /\ ~HasColl(colls, storeOp.sid)
  /\ \E s \in Sessions : Count(colls, s) > 0

\* C14: when create(session) has returned, the session has a collection
\* without records, whatever it held before; while the create is under way
\* the old records are already gone, so that a query another thread runs in
\* between sees none of them.
Thm_C14 ==
  /\ storeOp.op = "create" =>
       /\ HasColl(colls, storeOp.sid)
       /\ Count(colls, storeOp.sid) = 0
  /\ Creating =>
       /\ ~HasColl(colls, storeOp.sid)
       /\ \A i \in 1..Len(storeOp.result) :
            storeOp.result[i].sid = storeOp.sid
               => storeOp.result[i].got = << >>
Wit_C14 ==
  /\ storeOp.op = "create" /\ storeOp.had = 2
  /\ storeOp.result # << >> /\ storeOp.result[1].sid = storeOp.sid
  /\ HasColl(colls, storeOp.sid)

\* The schedulers that are running.
Running(insts) == {i \in 1..Len(insts) : insts[i].running}
LastCall(calls) == calls[Len(calls)]

\* C15: after every call at most one scheduler runs; the one that runs is
\* the one _scheduler names and holds the cleanup job exactly once; one runs
\* exactly if the last call was a start. A start that finds a scheduler
\* returns it and constructs none; a stop that finds none changes nothing.
Thm_C15 ==
  [][/\ Cardinality(Running(instances')) <= 1
     /\ \A i \in Running(instances') :
          /\ _scheduler' = i
          /\ instances'[i].jobs = <<"cleanup_sessions">>
     /\ Running(instances') # {} <=> LastCall(lifecycle') = "start"
     /\ (LastCall(lifecycle') = "start" /\ _scheduler # 0) =>
          /\ returned' = _scheduler
          /\ _scheduler' = _scheduler
          /\ instances' = instances
     /\ (LastCall(lifecycle') = "stop" /\ _scheduler = 0) =>
          /\ _scheduler' = 0
          /\ instances' = instances]_vars
Wit_C15 ==
  /\ lifecycle = <<"stop", "start", "start", "stop", "stop", "start">>
  /\ Len(instances) = 2
  /\ Running(instances) = {2}
  /\ returned = 2

\* C16: however the first calls of get_model interleave, at most one
\* SentenceTransformer is constructed and all callers get the same object.
Claim_C16 ==
  /\ loaded <= 1
  /\ \A t, u \in Threads :
       (callers[t].got # 0 /\ callers[u].got # 0)
          => callers[t].got = callers[u].got

\* The blocks the for loop has dealt with, and the chunks made of block i.
Handled == {i \in 1..Len(chunker.blocks) : i < chunker.i}
ChunksOf(i) == {j \in 1..Len(chunker.parent) : chunker.parent[j] = i}
Oversized(i) == Len(chunker.blocks[i].text) > chunker.max_chars
\* The k-th chunk made of block i.
NthChunk(i, k) ==
  chunker.chunked_blocks[
    (CHOOSE j \in ChunksOf(i) : \A j2 \in ChunksOf(i) : j <= j2) + k - 1]
\* Where a slice of Text(n) starts and ends (0-based, end-exclusive).
StartOf(chunk) == chunk.text[1] - 1
EndOf(chunk) == chunk.text[Len(chunk.text)]
CeilDiv(a, b) == (a + b - 1) \div b

\* C17: with overlap_chars < max_chars no chunk is longer than max_chars,
\* the chunks stand in the order of the blocks they were made of, and a
\* block that is not longer than max_chars yields exactly one chunk, which
\* is the block itself.
Thm_C17 ==
  /\ \A j \in 1..Len(chunker.chunked_blocks) :
       Len(chunker.chunked_blocks[j].text) <= chunker.max_chars
  /\ \A j, k \in 1..Len(chunker.parent) :
       j < k => chunker.parent[j] <= chunker.parent[k]
  /\ \A i \in Handled :
       ~Oversized(i) =>
          /\ Cardinality(ChunksOf(i)) = 1
          /\ NthChunk(i, 1) = chunker.blocks[i]
Wit_C17 ==
  /\ chunker.pc = "returned"
  /\ chunker.max_chars = 3 /\ chunker.overlap_chars = 2
  /\ Len(chunker.blocks) = 2
  /\ Len(chunker.blocks[1].text) = 5
  /\ Len(chunker.blocks[2].text) = 3
  /\ Len(chunker.chunked_blocks) = 4
  /\ chunker.chunked_blocks[4] = chunker.blocks[2]

\* C18: a block of length L > max_chars is cut into
\* ceil((L - overlap_chars) / (max_chars - overlap_chars)) slices; slice k
\* (counted from 0) starts at k * (max_chars - overlap_chars) and takes
\* max_chars characters or what is left; each slice but the last shares
\* its last overlap_chars characters with the next; the last ends at L.
Thm_C18 ==
  \A i \in Handled :
    Oversized(i) =>
      LET L == Len(chunker.blocks[i].text)
          step == chunker.max_chars - chunker.overlap_chars
          n == CeilDiv(L - chunker.overlap_chars, step)
      IN /\ Cardinality(ChunksOf(i)) = n
         /\ \A k \in 1..n :
              /\ StartOf(NthChunk(i, k)) = (k - 1) * step
              /\ NthChunk(i, k).text =
                   Slice(chunker.blocks[i].text, (k - 1) * step,
                         Min((k - 1) * step + chunker.max_chars, L))
         /\ \A k \in 1..(n - 1) :
              EndOf(NthChunk(i, k)) - StartOf(NthChunk(i, k + 1))
                 = chunker.overlap_chars
         /\ EndOf(NthChunk(i, n)) = L
Wit_C18 ==
  /\ chunker.pc = "returned"
  /\ chunker.max_chars = 3 /\ chunker.overlap_chars = 1
  /\ Len(chunker.blocks) = 1
  /\ Len(chunker.blocks[1].text) = 6
  /\ Len(chunker.chunked_blocks) = 3
  /\ chunker.chunked_blocks[2].text = <<3, 4, 5>>
  /\ chunker.chunked_blocks[3].text = <<5, 6>>

\* C19: every chunk made of an oversized block carries the page and the
\* bbox of that block.
Thm_C19 ==
  \A j \in 1..Len(chunker.chunked_blocks) :
    Oversized(chunker.parent[j]) =>
      /\ chunker.chunked_blocks[j].page
           = chunker.blocks[chunker.parent[j]].page
      /\ chunker.chunked_blocks[j].bbox
           = chunker.blocks[chunker.parent[j]].bbox
Wit_C19 ==
  /\ chunker.pc = "returned"
  /\ Len(chunker.blocks) = 2
  /\ Oversized(1) /\ Oversized(2)
  /\ chunker.blocks[1].page = 1 /\ chunker.blocks[2].page = 2
  /\ chunker.chunked_blocks[1].page = 1
  /\ chunker.chunked_blocks[Len(chunker.chunked_blocks)].page = 2
  /\ chunker.chunked_blocks[1].bbox #
       chunker.chunked_blocks[Len(chunker.chunked_blocks)].bbox

\* The step in which the query of a chat returns its results and chat
\* builds the response.
ChatAnswers ==
  /\ req.kind = "chat" /\ req.pc \in {"query", "search"} /\ req'.pc = "done"
  /\ req.pc = "search" => HasColl(colls, req.sid)
\* A citation shows the text, the page and the bbox of a stored record.
Cites(citation, rec) ==
  /\ citation.text = rec.text
  /\ citation.page = rec.page
  /\ citation.bbox = <<rec.bbox_x0, rec.bbox_y0, rec.bbox_x1, rec.bbox_y1>>

\* C20: a chat query is answered with at most top_k = 3 citations; their
\* ids are 1..n in order; citation i shows the record of rank i by distance
\* to the query (the cited records are the n nearest, in ascending
\* distance); when the query finds nothing the response is still a 200,
\* with no citations.
Thm_C20 ==
  [][ChatAnswers =>
       LET recs == IF HasColl(colls, req.sid)
                   THEN colls[collection_name(req.sid)] ELSE << >>
           qe == get_embedding(req.q)
           cites == req'.citations
           n == Len(req'.citations)
       IN /\ req'.status = 200
          /\ n <= TOP_K
          /\ recs # << >> => n > 0
          /\ \A i \in 1..n : cites[i].id = i
          /\ \E f \in [1..n -> 1..Len(recs)] :
               /\ \A i, j \in 1..n : f[i] = f[j] => i = j
               /\ \A i \in 1..n : Cites(cites[i], recs[f[i]])
               /\ \A i, j \in 1..n :
                    i < j => Distance(qe, recs[f[i]])
                               <= Distance(qe, recs[f[j]])
               /\ \A i \in 1..n, r \in 1..Len(recs) :
                    (\A j \in 1..n : f[j] # r)
                       => Distance(qe, recs[f[i]]) <= Distance(qe, recs[r])
          /\ req'.answer =
               IF n = 0 THEN "no relevant information" ELSE "found"]_vars
Wit_C20 ==
  /\ req.kind = "chat" /\ req.pc = "done" /\ req.status = 200
  /\ Count(colls, req.sid) = 4
  /\ Len(req.citations) = TOP_K
  /\ req.citations[1].text = BlockX.text
  /\ req.citations[2].text = BlockY.text
  /\ req.citations[3].text = BlockW.text
  /\ req.citations[3].id = 3

\* The step in which delete_session(Current) begins its work.
DeleteSessionStarts == swPc = "coll" /\ (swPc' # "coll" \/ swIdx' # swIdx)

\* C21: when delete_session starts on a session, the session's
\* last_accessed is more than the TTL old, and no chat query or status check
\* has refreshed it since the sweep computed its expired set.
Claim_C21 ==
  [][DeleteSessionStarts =>
       /\ TtlElapsed(registry, Current, now)
       /\ Current \notin refreshed]_vars

\* No chat query or status check on s is under way.
Quiet(s) == ~(req.kind \in {"chat", "status"} /\ req.sid = s)
\* Nothing of s is left in any of the three stores.
Reclaimed(s) ==
  /\ ~HasRow(registry, s)
  /\ ~HasColl(colls, s)
  /\ s \notin files

\* C22: a registered session whose TTL has elapsed is reclaimed (no row, no
\* collection, no file) at some later time, unless a chat query or status
\* check on it comes in; and what is reclaimed stays reclaimed.
Thm_C22 ==
  /\ \A s \in Sessions :
       TtlElapsed(registry, s, now) ~> (Reclaimed(s) \/ ~Quiet(s))
  /\ [][\A s \in Sessions :
          (s \in used /\ ~Ingesting(s) /\ Reclaimed(s)) => Reclaimed(s)']_vars
Wit_C22 ==
  \E s \in used :
    /\ now >= MinutesPerDay - 5 + SESSION_EXPIRY_MINUTES + 1
    /\ s \in owed
    /\ swLog[s].steps = AllSteps
    /\ Reclaimed(s)

\* One pass of the while loop, and the step that leaves it.
Slices == chunker.pc = "while" /\ chunker'.pc = "while"
LeavesWhile == chunker.pc = "while" /\ chunker'.pc = "for"

\* C23: called with 0 <= overlap_chars < max_chars, chunk_text_blocks
\* returns; every pass of the slicing loop moves start forward, never past
\* the end of the text, and the loop is left with start at the end of the
\* text.
Thm_C23 ==
  /\ chunker.pc \in {"for", "while"} ~> chunker.pc = "returned"
  /\ [][/\ Slices => /\ chunker'.start > chunker.start
                      /\ chunker'.start <= Len(Block.text)
        /\ LeavesWhile => chunker.start = Len(Block.text)]_vars
Wit_C23 ==
  /\ chunker.pc = "returned"
  /\ chunker.max_chars = 3 /\ chunker.overlap_chars = 2
  /\ Len(chunker.blocks) = 1
  /\ Len(chunker.blocks[1].text) = 6
  /\ Len(chunker.chunked_blocks) = 4
  /\ chunker.chunked_blocks[4].text = <<4, 5, 6>>

====
